---- MODULE Spec2Model ----
(***************************************************************************)
(* k8scp-rust: copy a local file into a pod by piping it to a remote       *)
(* `cat` through an attached exec session (src/src/main.rs).               *)
(*                                                                         *)
(* Tasks: main, the stdin pump (file -> remote stdin, through a            *)
(* FileProcessReader), and one pump per captured sink (remote stdout /     *)
(* stderr -> StringWriter behind a futures::lock::Mutex).  The remote      *)
(* process and the transport are the environment.                          *)
(*                                                                         *)
(* Bytes are integers 0..255; a Rust String is modelled by its UTF-8       *)
(* bytes.  cur/total are u64 in the source; every value reached here is    *)
(* far below 2^64, so no wrap-around arises within the bounds.             *)
(***************************************************************************)
EXTENDS Integers, Sequences, FiniteSets, TLC

\* ---- bounds -------------------------------------------------------------
MaxSrc == 1        \* longest source file
MaxOut == 2        \* most bytes the remote emits on stdout
MaxErr == 1        \* most bytes the remote emits on stderr
BufSize == 2       \* capacity of a copy buffer (tokio uses 8 KiB)
MaxFile == 2       \* longest source file when the stdin direction runs alone

Ascii == {97}                     \* 'a'
Letters == {97, 98}               \* 'a', 'b'
Bytes == {97, 195, 169}           \* 'a', and the two bytes of U+00E9
Dirs == {"out", "err"}            \* the two captured directions
\* what the completion signal resolves with: the exit status of the remote
\* command, or none when the connection was lost
Outcomes == {"Success", "Failure", "Disconnected"}

Min(a, b) == IF a < b THEN a ELSE b

RECURSIVE SeqsUpTo(_, _)
SeqsUpTo(S, n) ==
    IF n = 0 THEN {<<>>}
    ELSE LET T == SeqsUpTo(S, n - 1)
         IN  T \cup {Append(t, b) : t \in {u \in T : Len(u) = n - 1}, b \in S}

Drop(s, n) == SubSeq(s, n + 1, Len(s))
Take(s, n) == SubSeq(s, 1, n)

RECURSIVE Flatten(_)
Flatten(ss) == IF ss = <<>> THEN <<>> ELSE Head(ss) \o Flatten(Tail(ss))

\* ---- std::str::from_utf8 -------------------------------------------------
IsCont(b) == b >= 128 /\ b <= 191

\* number of bytes of the well-formed character that starts s, 0 if none
CharLen(s) ==
    LET b == s[1]
        c2 == Len(s) >= 2 /\ IsCont(s[2])
        c3 == Len(s) >= 3 /\ IsCont(s[3])
        c4 == Len(s) >= 4 /\ IsCont(s[4])
    IN  IF b < 128 THEN 1
        ELSE IF b >= 194 /\ b <= 223 THEN (IF c2 THEN 2 ELSE 0)
        ELSE IF b = 224 THEN (IF c2 /\ s[2] >= 160 /\ c3 THEN 3 ELSE 0)
        ELSE IF b = 237 THEN (IF c2 /\ s[2] <= 159 /\ c3 THEN 3 ELSE 0)
        ELSE IF b >= 225 /\ b <= 239 THEN (IF c2 /\ c3 THEN 3 ELSE 0)
        ELSE IF b = 240 THEN (IF c2 /\ s[2] >= 144 /\ c3 /\ c4 THEN 4 ELSE 0)
        ELSE IF b = 244 THEN (IF c2 /\ s[2] <= 143 /\ c3 /\ c4 THEN 4 ELSE 0)
        ELSE IF b >= 241 /\ b <= 243 THEN (IF c2 /\ c3 /\ c4 THEN 4 ELSE 0)
        ELSE 0

RECURSIVE from_utf8_ok(_)
from_utf8_ok(s) ==
    IF s = <<>> THEN TRUE
    ELSE LET k == CharLen(s)
         IN  k > 0 /\ from_utf8_ok(Drop(s, k))

\* "[not utf8]"
NotUtf8 == <<91, 110, 111, 116, 32, 117, 116, 102, 56, 93>>

\* ---- StringWriter --------------------------------------------------------
\* the text poll_write pushes for one chunk
PushedText(buf) == IF from_utf8_ok(buf) THEN buf ELSE NotUtf8

\* a poll_write that fails on undecodable bytes (from_utf8(buf)?)
PollWriteErrOnBad(s, buf) ==
    IF from_utf8_ok(buf)
    THEN [str |-> s \o buf, ret |-> [kind |-> "Ok", n |-> Len(buf)]]
    ELSE [str |-> s, ret |-> [kind |-> "Err", n |-> 0]]

\* poll_write: new string and return value
PollWrite(s, buf) ==
    [str |-> s \o PushedText(buf),
     ret |-> [kind |-> "Ok", n |-> Len(buf)]]

\* ---- FileProcessReader ---------------------------------------------------
\* outcomes of the underlying file read at file position p into `room`
\* unfilled bytes of the caller's buffer
ReadOutcomes(src, p, room) ==
    {[kind |-> "Pending", n |-> 0], [kind |-> "Err", n |-> 0]} \cup
    {[kind |-> "Ok", n |-> k] :
        k \in IF Len(src) - p = 0 \/ room = 0 THEN {0}
              ELSE 1..Min(room, Len(src) - p)}

\* a poll_read that counts and reports progress whatever the file returned
PollReadCountsAlways(rd, prefix, r) ==
    LET filled == prefix + r.n
        c == rd.cur + filled
    IN  [rd EXCEPT !.under = r.kind, !.ret = r.kind, !.reads = 1,
                   !.fpos = @ + r.n,
                   !.lastCur = rd.cur,
                   !.cur = c,
                   !.pbPos = c,
                   !.pbCalls = @ + 1,
                   !.nzReads = @ + (IF r.n > 0 THEN 1 ELSE 0)]

\* poll_read on reader state rd, with `prefix` bytes already filled in the
\* caller's buffer on entry and underlying outcome r: one read of the file
\* (under), the bookkeeping when it succeeded, and its outcome returned (ret)
PollRead(rd, prefix, r) ==
    LET called == [rd EXCEPT !.under = r.kind, !.reads = 1, !.ret = r.kind]
    IN  IF r.kind = "Ok"
        THEN LET filled == prefix + r.n           \* buf.filled().len()
                 c == rd.cur + filled
             IN  [called EXCEPT !.fpos = @ + r.n,
                                !.lastCur = rd.cur,
                                !.cur = c,
                                !.pbPos = c,
                                !.pbCalls = @ + 1,
                                !.nzReads = @ + (IF r.n > 0 THEN 1 ELSE 0)]
        ELSE called

\* FileProcessReader::new, then main line 120 (pb = Some)
NewReader(src) ==
    [fpos |-> 0, cur |-> 0, lastCur |-> 0, total |-> Len(src),
     pbPos |-> 0, pbCalls |-> 0, nzReads |-> 0,
     under |-> "none", reads |-> 0, ret |-> "none"]

\* ---- state ---------------------------------------------------------------
VARIABLES
    mainPc,      \* "attach", "await", "test", "log", "done"
    mainDir,     \* the sink main is testing / logging
    result,      \* what main returned: "none", "Ok", "Err"
    status,      \* completion signal: "pending", "Success", "Failure", "Disconnected"
    src,         \* bytes of the source file
    f_reader,    \* FileProcessReader: cur, total, the position pb shows,
                 \* and of its last poll_read: the file's outcome, the
                 \* number of file reads, the outcome returned
                 \* (pbPos); fpos is the position of the underlying file,
                 \* i.e. the bytes its reads delivered so far; lastCur,
                 \* pbCalls, nzReads record the calls: cur before the last
                 \* successful read, pb.set_position calls, successful
                 \* reads that delivered at least one byte
    inPc,        \* stdin pump: "none", "running", "done", "failed"
    buf,         \* stdin copy buffer, bytes [0, cap)
    pos,         \* stdin copy buffer: bytes already written
    read_done,   \* stdin copy: the reader reported end of file
    remoteIn,    \* bytes the remote stdin endpoint received
    stream,      \* per direction: bytes the remote sends, not yet read
    closed,      \* per direction: the stream ends after those bytes
    pump,        \* per direction: "none", "spawned", "running", "done", "failed"
    written,     \* per direction: chunks passed to poll_write, in order
    wret,        \* per direction: return values of poll_write, in order
    str,         \* per direction: StringWriter.str
    lock,        \* per direction, who holds the sink's Mutex: "free", a pump, "main"
    seen,        \* per direction: the contents main tested for emptiness
    logged       \* per direction: the contents main logged

mainVars == <<mainPc, mainDir, result, seen, logged>>
readerVars == <<src, f_reader>>
inVars == <<inPc, buf, pos, read_done, remoteIn>>
sinkVars == <<pump, written, wret, str>>
remoteVars == <<stream, closed>>
vars == <<mainVars, readerVars, inVars, sinkVars, remoteVars, status, lock>>

cap == Len(buf)
Attached == mainPc \in {"await", "test", "log"}
\* everything the remote put on the stream of direction d so far
Sent(d) == Flatten(written[d]) \o stream[d]

\* the state when main starts: a source file among srcs, and a remote whose
\* stdout carries a byte sequence among outs
InitWith(srcs, outs) ==
    /\ mainPc = "attach" /\ mainDir = "out" /\ result = "none"
    /\ status = "pending"
    /\ src \in srcs
    /\ f_reader = NewReader(src)
    /\ inPc = "none" /\ buf = <<>> /\ pos = 0 /\ read_done = FALSE
    /\ remoteIn = <<>>
    /\ \E o \in outs, e \in SeqsUpTo(Ascii, MaxErr) :
           stream = [d \in Dirs |-> IF d = "out" THEN o ELSE e]
    /\ closed \in [Dirs -> BOOLEAN]
    /\ pump = [d \in Dirs |-> "none"]
    /\ written = [d \in Dirs |-> <<>>]
    /\ wret = [d \in Dirs |-> <<>>]
    /\ str = [d \in Dirs |-> <<>>]
    /\ lock = [d \in Dirs |-> "free"]
    /\ seen = [d \in Dirs |-> <<>>]
    /\ logged = [d \in Dirs |-> <<>>]

\* the program on a text file, with a remote command that prints nothing on
\* stdout (as `cat > file` does) or echoes its stdin
Init == \E s \in SeqsUpTo(Ascii, MaxSrc) : InitWith({s}, {<<>>, s})

\* ---- main ----------------------------------------------------------------
\* what main returns once the completion signal resolved with outcome s
Report(s) == "Ok"

\* an attach whose tasks are spawned before its result is looked at
AttachSpawnsFirst(ok) ==
    /\ mainPc = "attach"
    /\ inPc' = "running"
    /\ pump' = [d \in Dirs |-> "spawned"]
    /\ IF ok
       THEN mainPc' = "await" /\ UNCHANGED result
       ELSE mainPc' = "done" /\ result' = "Err"
    /\ UNCHANGED <<mainDir, seen, logged, readerVars, buf, pos, read_done,
                   remoteIn, written, wret, str, remoteVars, status, lock>>

\* pods.exec(..).await? and the three tokio::spawn calls
Attach(ok) ==
    /\ mainPc = "attach"
    /\ IF ok
       THEN /\ mainPc' = "await"
            /\ inPc' = "running"
            /\ pump' = [d \in Dirs |-> "spawned"]
            /\ UNCHANGED result
       ELSE /\ mainPc' = "done"
            /\ result' = "Err"
            /\ UNCHANGED <<inPc, pump>>
    /\ UNCHANGED <<mainDir, seen, logged, readerVars, buf, pos, read_done,
                   remoteIn, written, wret, str, remoteVars, status, lock>>

\* the completion future is taken but main goes on without awaiting it
AwaitStatusDropped ==
    /\ mainPc = "await"
    /\ mainPc' = "test"
    /\ mainDir' = "out"
    /\ UNCHANGED <<result, seen, logged, readerVars, inVars, sinkVars,
                   remoteVars, status, lock>>

\* attached.take_status().unwrap().await; pb.abandon()
AwaitStatus ==
    /\ mainPc = "await"
    /\ status # "pending"
    /\ mainPc' = "test"
    /\ mainDir' = "out"
    /\ UNCHANGED <<result, seen, logged, readerVars, inVars, sinkVars,
                   remoteVars, status, lock>>

\* where main goes after it is through with sink d
AfterSink(d) ==
    IF d = "out"
    THEN /\ mainPc' = "test" /\ mainDir' = "err" /\ UNCHANGED result
    ELSE /\ mainPc' = "done" /\ mainDir' = d /\ result' = Report(status)

\* a test that reads the sink without waiting for its lock
MainTestNoLock ==
    /\ mainPc = "test"
    /\ seen' = [seen EXCEPT ![mainDir] = Append(@, str[mainDir])]
    /\ IF str[mainDir] # <<>>
       THEN mainPc' = "log" /\ UNCHANGED <<mainDir, result>>
       ELSE AfterSink(mainDir)
    /\ UNCHANGED <<logged, readerVars, inVars, sinkVars, remoteVars, status, lock>>

\* a test whose guard outlives the condition and is still held at the log
MainTestKeepsGuard ==
    /\ mainPc = "test"
    /\ lock[mainDir] = "free"
    /\ seen' = [seen EXCEPT ![mainDir] = Append(@, str[mainDir])]
    /\ IF str[mainDir] # <<>>
       THEN /\ mainPc' = "log" /\ UNCHANGED <<mainDir, result>>
            /\ lock' = [lock EXCEPT ![mainDir] = "main"]
       ELSE AfterSink(mainDir) /\ UNCHANGED lock
    /\ UNCHANGED <<logged, readerVars, inVars, sinkVars, remoteVars, status>>

\* !x.lock().await.str.is_empty(): take the lock once it is free, read under
\* the guard, drop the guard at the end of the condition
MainTest ==
    /\ mainPc = "test"
    /\ lock[mainDir] = "free"
    /\ seen' = [seen EXCEPT ![mainDir] = Append(@, str[mainDir])]
    /\ IF str[mainDir] # <<>>
       THEN mainPc' = "log" /\ UNCHANGED <<mainDir, result>>
       ELSE AfterSink(mainDir)
    /\ UNCHANGED <<logged, readerVars, inVars, sinkVars, remoteVars, status, lock>>

\* info!("stdout:{}", x.lock().await.str): a second acquisition
MainLog ==
    /\ mainPc = "log"
    /\ lock[mainDir] = "free"
    /\ logged' = [logged EXCEPT ![mainDir] = Append(@, str[mainDir])]
    /\ AfterSink(mainDir)
    /\ UNCHANGED <<seen, readerVars, inVars, sinkVars, remoteVars, status, lock>>

\* spawned tasks run only while main has not returned (the runtime is
\* dropped when main returns)
Alive == mainPc # "done"

\* ---- spawned tasks -------------------------------------------------------
\* a panic of a spawned task ends the whole process
OnTaskPanicAbort == mainPc' = "done" /\ result' = "Err"

\* a panic (.unwrap() on a failed copy) stays inside the spawned task
OnTaskPanic == UNCHANGED <<mainPc, result>>

\* ---- stdin pump: tokio::io::copy(&mut f_reader, &mut stdin_writer) -------
\* bytes an underlying read with outcome r puts into the buffer
ReadBytes(r) == SubSeq(src, f_reader.fpos + 1, f_reader.fpos + r.n)

InFail ==
    /\ inPc' = "failed" /\ buf' = <<>> /\ pos' = 0
    /\ OnTaskPanic

\* the buffer is drained: reset it and read the next chunk from f_reader
InFill(r) ==
    /\ Alive /\ inPc = "running"
    /\ pos = cap /\ ~read_done
    /\ r \in ReadOutcomes(src, f_reader.fpos, BufSize)
    /\ f_reader' = PollRead(f_reader, 0, r)
    /\ CASE f_reader'.ret = "Ok" ->
              /\ buf' = ReadBytes(r) /\ pos' = 0
              /\ read_done' = (r.n = 0)
              /\ UNCHANGED <<inPc, mainPc, result>>
         [] f_reader'.ret = "Pending" ->
              /\ buf' = <<>> /\ pos' = 0
              /\ UNCHANGED <<inPc, read_done, mainPc, result>>
         [] f_reader'.ret = "Err" ->
              /\ InFail /\ UNCHANGED read_done
    /\ UNCHANGED <<mainDir, seen, logged, src, remoteIn, sinkVars, remoteVars,
                   status, lock>>

\* a write that sends the buffer from its start again
InWriteFromStart(k) ==
    /\ Alive /\ inPc = "running"
    /\ pos < cap
    /\ k \in 1..(cap - pos)
    /\ remoteIn' = remoteIn \o SubSeq(buf, 1, k)
    /\ pos' = pos + k
    /\ UNCHANGED <<mainVars, readerVars, inPc, buf, read_done, sinkVars,
                   remoteVars, status, lock>>

\* stdin_writer accepts k bytes of buf[pos, cap)
InWrite(k) ==
    /\ Alive /\ inPc = "running"
    /\ pos < cap
    /\ k \in 1..(cap - pos)
    /\ remoteIn' = remoteIn \o SubSeq(buf, pos + 1, pos + k)
    /\ pos' = pos + k
    /\ UNCHANGED <<mainVars, readerVars, inPc, buf, read_done, sinkVars,
                   remoteVars, status, lock>>

\* stdin_writer is not ready: the copy tops the buffer up from f_reader,
\* handing it a read buffer whose first cap bytes are already filled
InWritePending(r) ==
    /\ Alive /\ inPc = "running"
    /\ pos < cap
    /\ ~read_done /\ cap < BufSize
    /\ r \in ReadOutcomes(src, f_reader.fpos, BufSize - cap)
    /\ f_reader' = PollRead(f_reader, cap, r)
    /\ CASE f_reader'.ret = "Ok" ->
              /\ buf' = buf \o ReadBytes(r)
              /\ read_done' = (r.n = 0)
              /\ UNCHANGED <<inPc, pos, mainPc, result>>
         [] f_reader'.ret = "Pending" ->
              UNCHANGED <<inPc, buf, pos, read_done, mainPc, result>>
         [] f_reader'.ret = "Err" ->
              /\ InFail /\ UNCHANGED read_done
    /\ UNCHANGED <<mainDir, seen, logged, src, remoteIn, sinkVars, remoteVars,
                   status, lock>>

\* stdin_writer reports an error on write or flush
InWriteErr ==
    /\ Alive /\ inPc = "running"
    /\ pos < cap \/ read_done
    /\ InFail
    /\ UNCHANGED <<mainDir, seen, logged, readerVars, read_done, remoteIn,
                   sinkVars, remoteVars, status, lock>>

\* everything read and written: flush, and the task ends
InFinish ==
    /\ Alive /\ inPc = "running"
    /\ pos = cap /\ read_done
    /\ inPc' = "done"
    /\ UNCHANGED <<mainVars, readerVars, buf, pos, read_done, remoteIn,
                   sinkVars, remoteVars, status, lock>>

\* ---- stdout / stderr pumps: copy(&mut reader, x.lock().await.deref_mut())
\* both pumps locking the one stdout sink
PumpLockShared(d) ==
    /\ Alive /\ pump[d] = "spawned"
    /\ lock["out"] = "free"
    /\ lock' = [lock EXCEPT !["out"] = d]
    /\ pump' = [pump EXCEPT ![d] = "running"]
    /\ UNCHANGED <<mainVars, readerVars, inVars, written, wret, str,
                   remoteVars, status>>

\* out.lock().await: the guard lives until the copy statement ends
PumpLock(d) ==
    /\ Alive /\ pump[d] = "spawned"
    /\ lock[d] = "free"
    /\ lock' = [lock EXCEPT ![d] = d]
    /\ pump' = [pump EXCEPT ![d] = "running"]
    /\ UNCHANGED <<mainVars, readerVars, inVars, written, wret, str,
                   remoteVars, status>>

\* a task that ends by panic with its guard leaked
PumpFailKeepsLock(d) ==
    /\ pump' = [pump EXCEPT ![d] = "failed"]
    /\ UNCHANGED lock
    /\ OnTaskPanic

\* the task ends by panic: its future, and the guard in it, are dropped
PumpFail(d) ==
    /\ pump' = [pump EXCEPT ![d] = "failed"]
    /\ lock' = [lock EXCEPT ![d] = "free"]
    /\ OnTaskPanic

\* a copy whose guard is taken for each write and dropped after it
PumpCopyUnlocks(d, n) ==
    /\ Alive /\ pump[d] = "running"
    /\ n \in 1..Min(Len(stream[d]), BufSize)
    /\ stream' = [stream EXCEPT ![d] = Drop(@, n)]
    /\ LET chunk == Take(stream[d], n)
           res == PollWrite(str[d], chunk)
       IN  /\ str' = [str EXCEPT ![d] = res.str]
           /\ written' = [written EXCEPT ![d] = Append(@, chunk)]
           /\ wret' = [wret EXCEPT ![d] = Append(@, res.ret)]
           /\ IF res.ret.kind = "Ok"
              THEN /\ lock' = [lock EXCEPT ![d] = "free"]
                   /\ UNCHANGED <<pump, mainPc, result>>
              ELSE PumpFail(d)
    /\ UNCHANGED <<mainDir, seen, logged, readerVars, inVars, closed, status>>

\* read a chunk of n bytes from the remote stream and write it into the
\* StringWriter (poll_write is ready at once, so both happen in one poll)
PumpCopy(d, n) ==
    /\ Alive /\ pump[d] = "running"
    /\ n \in 1..Min(Len(stream[d]), BufSize)
    /\ stream' = [stream EXCEPT ![d] = Drop(@, n)]
    /\ LET chunk == Take(stream[d], n)
           res == PollWrite(str[d], chunk)
       IN  /\ str' = [str EXCEPT ![d] = res.str]
           /\ written' = [written EXCEPT ![d] = Append(@, chunk)]
           /\ wret' = [wret EXCEPT ![d] = Append(@, res.ret)]
           /\ IF res.ret.kind = "Ok"
              THEN UNCHANGED <<pump, lock, mainPc, result>>
              ELSE PumpFail(d)
    /\ UNCHANGED <<mainDir, seen, logged, readerVars, inVars, closed, status>>

\* the remote stream fails
PumpReadErr(d) ==
    /\ Alive /\ pump[d] = "running"
    /\ PumpFail(d)
    /\ UNCHANGED <<mainDir, seen, logged, readerVars, inVars, written, wret,
                   str, remoteVars, status>>

\* end of the remote stream: the copy returns, the guard is dropped
PumpEof(d) ==
    /\ Alive /\ pump[d] = "running"
    /\ stream[d] = <<>> /\ closed[d]
    /\ pump' = [pump EXCEPT ![d] = "done"]
    /\ lock' = [lock EXCEPT ![d] = "free"]
    /\ UNCHANGED <<mainVars, readerVars, inVars, written, wret, str,
                   remoteVars, status>>

\* ---- the remote process and the transport --------------------------------
\* the completion signal resolves, once
Resolve(s) ==
    /\ Attached /\ status = "pending"
    /\ status' = s
    /\ UNCHANGED <<mainVars, readerVars, inVars, sinkVars, remoteVars, lock>>

\* ---- specification -------------------------------------------------------
\* steps of the copy that the stdin pump takes when it is polled
StdinPumpRuns ==
    \/ \E r \in ReadOutcomes(src, f_reader.fpos, BufSize) : InFill(r)
    \/ \E k \in 1..BufSize : InWrite(k)
    \/ \E r \in ReadOutcomes(src, f_reader.fpos, BufSize) : InWritePending(r)
    \/ InFinish

StdinPump == StdinPumpRuns \/ InWriteErr

SinkPumpRuns(d) ==
    \/ PumpLock(d)
    \/ \E n \in 1..BufSize : PumpCopy(d, n)
    \/ PumpEof(d)

SinkPump(d) == SinkPumpRuns(d) \/ PumpReadErr(d)

Main ==
    \/ \E ok \in BOOLEAN : Attach(ok)
    \/ AwaitStatus
    \/ MainTest
    \/ MainLog

Remote == \E s \in Outcomes : Resolve(s)

Next == Main \/ StdinPump \/ (\E d \in Dirs : SinkPump(d)) \/ Remote

Spec == Init /\ [][Next]_vars

\* the runtime polls every task that can make a step; failures of the
\* remote streams and the time the completion signal resolves are up to the
\* environment
FairSpec ==
    /\ Spec
    /\ WF_vars(Main)
    /\ WF_vars(StdinPumpRuns)
    /\ \A d \in Dirs : WF_vars(SinkPumpRuns(d))

\* main and the two captured sinks, with a remote that prints any bytes;
\* the stdin pump is not polled
SinkNext == Main \/ (\E d \in Dirs : SinkPump(d)) \/ Remote
SinkInit == InitWith({<<>>}, SeqsUpTo(Bytes, MaxOut))
SinkSpec == SinkInit /\ [][SinkNext]_vars

\* the stdin direction alone, on files of distinct bytes: attach, then the
\* copy from f_reader to stdin_writer
StdinNext == (\E ok \in BOOLEAN : Attach(ok)) \/ StdinPump
StdinInit == InitWith(SeqsUpTo(Letters, MaxFile), {<<>>})
StdinSpec == StdinInit /\ [][StdinNext]_vars

\* ---- FileProcessReader: progress accounting ------------------------------
\* C1: after any sequence of poll_read calls, cur equals the sum of the bytes
\* newly delivered by the successful calls (the underlying file position).
C1_CurIsSumOfDelivered == f_reader.cur = f_reader.fpos

\* C2: cur never exceeds the total captured at construction, starts at 0 and
\* never decreases from one read to the next.
C2_CurWithinTotal ==
    /\ f_reader.cur <= f_reader.total
    /\ f_reader.lastCur <= f_reader.cur
    /\ (f_reader.pbCalls = 0 => f_reader.cur = 0)

\* C10: the progress observer is invoked exactly once per successful read
\* that delivers at least one byte, with the new cumulative offset, and not
\* for a read that reports end of file with zero bytes.
C10_ObserverOncePerRealRead ==
    /\ f_reader.pbCalls = f_reader.nzReads
    /\ f_reader.pbPos = f_reader.cur

\* ---- StringWriter --------------------------------------------------------
\* C3: once a sink's pump has finished, the sink holds the exact
\* concatenation of all chunks written to it, in write order.
C3_ContentIsConcatenation ==
    \A d \in Dirs : pump[d] = "done" => str[d] = Flatten(written[d])

\* the text expected in a sink for the chunks cs: each chunk itself when it
\* decodes, the marker "[not utf8]" when it does not
RECURSIVE Captured(_)
Captured(cs) ==
    IF cs = <<>> THEN <<>>
    ELSE Captured(SubSeq(cs, 1, Len(cs) - 1)) \o
         (IF from_utf8_ok(cs[Len(cs)]) THEN cs[Len(cs)] ELSE NotUtf8)

\* C9: poll_write never returns an error or pending: for every chunk it
\* returns success with the whole chunk length, appending the decoded text of
\* a valid chunk and the marker for an invalid one; chunks after an invalid
\* one are still captured.
C9_WriteAlwaysSucceeds ==
    \A d \in Dirs :
        /\ Len(wret[d]) = Len(written[d])
        /\ \A i \in 1..Len(wret[d]) :
               wret[d][i] = [kind |-> "Ok", n |-> Len(written[d][i])]
        /\ str[d] = Captured(written[d])

\* a valid chunk was captured after an invalid one, and the pump went on to
\* the end of the stream
C9_Witness ==
    /\ pump["out"] = "done"
    /\ Len(written["out"]) = 2
    /\ ~from_utf8_ok(written["out"][1])
    /\ from_utf8_ok(written["out"][2])
    /\ str["out"] = NotUtf8 \o written["out"][2]

\* ---- main ----------------------------------------------------------------
\* C4: a disconnection or failure outcome of the completion signal is never
\* reported by main as the result of a normal successful exit.
C4_OutcomeDistinct ==
    (mainPc = "done" /\ status \in {"Failure", "Disconnected"})
        => result # Report("Success")

\* C5: once the completion signal has resolved, main eventually returns,
\* whatever the pumps do.
C5_ReturnsAfterCompletion == (status # "pending") ~> (mainPc = "done")

AnyFailed == inPc = "failed" \/ \E d \in Dirs : pump[d] = "failed"

\* C6: a failed copy in one direction leaves the other pumps and main as
\* they are (none is aborted), the failed pump does not keep its sink locked,
\* and main still returns only after the completion signal, normally.
C6_FailureIsolated ==
    [][ /\ (inPc # "failed" /\ inPc' = "failed")
            => UNCHANGED <<mainVars, sinkVars, lock, remoteVars, status>>
        /\ \A d \in Dirs :
             (pump[d] # "failed" /\ pump'[d] = "failed")
                => /\ UNCHANGED <<mainVars, inVars, readerVars, status>>
                   /\ lock'[d] = "free"
                   /\ \A e \in Dirs \ {d} :
                        /\ pump'[e] = pump[e] /\ lock'[e] = lock[e]
                        /\ str'[e] = str[e] /\ stream'[e] = stream[e]
        /\ (AnyFailed' /\ mainPc # "done" /\ mainPc' = "done")
            => (status # "pending" /\ result' = "Ok")
      ]_vars

\* ... and main does return once the completion signal has resolved and the
\* streams of the pumps that did not fail come to their end
C6_StillReturns ==
    ( /\ AnyFailed /\ status # "pending"
      /\ \A d \in Dirs : pump[d] \in {"done", "failed"} \/ closed[d] )
    ~> (mainPc = "done" /\ result = "Ok")

\* the stdin copy failed, the stdout pump still captured its stream to the
\* end, and main returned normally
C6_Witness ==
    /\ inPc = "failed"
    /\ pump["out"] = "done" /\ str["out"] # <<>> /\ stream["out"] = <<>>
    /\ mainPc = "done" /\ result = "Ok" /\ logged["out"] = <<str["out"]>>

\* C7: main reads a sink only after that sink's pump has stopped writing.
C7_ReadAfterPumpStopped ==
    \A d \in Dirs :
        (seen[d] # <<>> \/ logged[d] # <<>>) => pump[d] \in {"done", "failed"}

\* C8: source piped to a remote that echoes stdin to stdout and exits
\* successfully, no I/O error: when main returns, the stdout sink holds the
\* source and the last offset given to the progress observer is its length.
C8_EchoRoundTrip ==
    ( /\ mainPc = "done" /\ result = "Ok" /\ status = "Success"
      /\ ~AnyFailed
      /\ inPc = "done" /\ remoteIn = src
      /\ Sent("out") = src /\ closed["out"] )
    => (str["out"] = src /\ f_reader.pbPos = Len(src))

\* ---- stdin direction ------------------------------------------------------
\* C11: the bytes written to the remote stdin are at every point a prefix of
\* the source file (source order, nothing skipped, duplicated or sent again,
\* also when the copy fails part-way), and a copy that finishes without
\* error has delivered exactly the source.
C11_StdinIsPrefixOfSource ==
    /\ Len(remoteIn) <= Len(src)
    /\ remoteIn = SubSeq(src, 1, Len(remoteIn))
    /\ (inPc = "done" => remoteIn = src)

\* a two-byte file went out in two writes, the second after a top-up read
C11_Witness ==
    /\ inPc = "done" /\ src = <<97, 98>> /\ remoteIn = src
    /\ f_reader.pbCalls >= 3 /\ f_reader.cur > f_reader.total

\* a copy that failed part-way left a proper prefix at the remote
C11_WitnessFailed ==
    inPc = "failed" /\ src = <<97, 98>> /\ remoteIn = <<97>>

\* ---- attach ---------------------------------------------------------------
\* C12: no pump is started and no sink exists unless the attach succeeded; a
\* failed attach makes main return the error at once: nothing is retried, no
\* pump runs, no completion signal is awaited, no sink is read.
C12_NothingWithoutAttach ==
    /\ (result = "Err") => (mainPc = "done" /\ ~ENABLED Next)
    /\ (mainPc = "attach" \/ result = "Err") =>
          /\ inPc = "none" /\ remoteIn = <<>> /\ buf = <<>>
          /\ f_reader = NewReader(src)
          /\ status = "pending"
          /\ \A d \in Dirs :
                /\ pump[d] = "none" /\ lock[d] = "free"
                /\ written[d] = <<>> /\ str[d] = <<>>
                /\ seen[d] = <<>> /\ logged[d] = <<>>

\* main has returned the attach error while the remote had output to give
C12_Witness ==
    mainPc = "done" /\ result = "Err" /\ src # <<>> /\ stream["out"] # <<>>

\* ---- the sink locks -------------------------------------------------------
\* the last content main observed in direction d in the step just taken
Observed(d) ==
    IF seen'[d] # seen[d] THEN seen'[d][Len(seen'[d])]
    ELSE logged'[d][Len(logged'[d])]

\* C13: the pump's writes to a sink and main's reads of it exclude one
\* another: a write happens only under the pump's guard, a read only in a
\* step that found the lock free, and what main reads is the text of a whole
\* number of completed writes.
C13_ReadsExcludeWrites ==
    [][\A d \in Dirs :
          /\ (str'[d] # str[d]) =>
                /\ lock[d] = d /\ pump[d] = "running"
                /\ seen'[d] = seen[d] /\ logged'[d] = logged[d]
          /\ (seen'[d] # seen[d] \/ logged'[d] # logged[d]) =>
                /\ lock[d] = "free" /\ lock'[d] = "free"
                /\ pump[d] # "running"
                /\ str'[d] = str[d]
                /\ Observed(d) = str[d]
                /\ Observed(d) = Captured(written[d])
      ]_vars

\* main read a text made of two completed writes while the other pump still
\* held its own lock
C13_Witness ==
    /\ Len(written["out"]) = 2 /\ seen["out"] = <<str["out"]>>
    /\ pump["err"] = "running" /\ lock["err"] = "err"

\* ---- what main logs -------------------------------------------------------
\* C14: main logs the content of a sink only after the completion signal
\* has resolved and only when the content it read is not empty: an empty
\* sink is never logged, nothing is read or logged before completion, and a
\* sink is logged when the test just before found it non-empty.
C14_LogsAfterCompletionNonEmpty ==
    \A d \in Dirs :
        /\ (seen[d] # <<>> \/ logged[d] # <<>>) => status # "pending"
        /\ Len(seen[d]) <= 1 /\ Len(logged[d]) <= 1
        /\ \A i \in 1..Len(logged[d]) : logged[d][i] # <<>>
        /\ logged[d] # <<>> => (seen[d] # <<>> /\ seen[d][1] # <<>>)
        /\ (mainPc = "done" /\ seen[d] # <<>> /\ seen[d][1] # <<>>)
              => logged[d] # <<>>

\* main logged one sink and found the other empty, which it did not log
C14_Witness ==
    /\ mainPc = "done" /\ result = "Ok"
    /\ logged["out"] # <<>> /\ seen["err"] = << <<>> >> /\ logged["err"] = <<>>

\* ---- poll_read when the file does not deliver ------------------------------
\* C15: when the file read is pending or fails, poll_read returns that same
\* outcome, leaves the offset alone, does not call the progress observer and
\* reads the file once only (no retry).
C15_NoProgressPassedThrough ==
    [][(f_reader' # f_reader /\ f_reader'.under \in {"Pending", "Err"}) =>
          /\ f_reader'.ret = f_reader'.under
          /\ f_reader'.reads = 1
          /\ f_reader'.cur = f_reader.cur
          /\ f_reader'.fpos = f_reader.fpos
          /\ f_reader'.pbPos = f_reader.pbPos
          /\ f_reader'.pbCalls = f_reader.pbCalls
          /\ (f_reader'.ret = "Err" => inPc' = "failed")
          /\ (f_reader'.ret = "Pending" => inPc' = "running")
      ]_vars

\* a pending file read came after a read that had delivered bytes
C15_Witness ==
    /\ f_reader.under = "Pending" /\ f_reader.ret = "Pending"
    /\ f_reader.cur > 0 /\ f_reader.pbCalls = 1 /\ inPc = "running"

\* a failed file read came after a read that had delivered bytes
C15_WitnessErr ==
    /\ f_reader.under = "Err" /\ f_reader.ret = "Err"
    /\ f_reader.cur > 0 /\ inPc = "failed"

\* C16: one pump per direction is started and no pump keeps another from its
\* next step: the lock of a sink is held by that sink's own pump only,
\* exactly while it copies; the stdin pump takes no lock; a pump that has
\* work to do can do it whatever state the other pumps are in.
C16_PumpsIndependent ==
    /\ Attached => (inPc # "none" /\ \A d \in Dirs : pump[d] # "none")
    /\ (Alive /\ inPc = "running") => ENABLED StdinPumpRuns
    /\ \A d \in Dirs :
          /\ lock[d] \in {"free", d}
          /\ lock[d] = d <=> pump[d] = "running"
          /\ (Alive /\ pump[d] = "spawned") => ENABLED PumpLock(d)
          /\ (Alive /\ pump[d] = "running" /\ stream[d] # <<>>)
                => ENABLED PumpCopy(d, 1)
          /\ (Alive /\ pump[d] = "running" /\ stream[d] = <<>> /\ closed[d])
                => ENABLED PumpEof(d)

\* the stdout pump is stalled on a silent open stream, holding its lock,
\* while the stderr pump and the stdin pump ran to their ends
C16_Witness ==
    /\ pump["out"] = "running" /\ stream["out"] = <<>> /\ ~closed["out"]
    /\ pump["err"] = "done" /\ str["err"] # <<>>
    /\ inPc = "done" /\ remoteIn # <<>>

\* C17: what main logs for a sink is the complete final output of that
\* sink's pump and is the very text main had just tested, although the lock
\* is free between the test and the log: a non-empty text read by main means
\* the pump has ended (it holds the lock from before its first write to its
\* end).
C17_LoggedIsFinalAndTested ==
    \A d \in Dirs :
        /\ (seen[d] # <<>> /\ seen[d][1] # <<>>) =>
              /\ pump[d] \in {"done", "failed"}
              /\ seen[d][1] = str[d]
        /\ (mainPc = "log" /\ mainDir = d) =>
              /\ pump[d] \in {"done", "failed"}
              /\ seen[d] = <<str[d]>> /\ lock[d] = "free"
        /\ logged[d] # <<>> =>
              /\ pump[d] \in {"done", "failed"}
              /\ logged[d] = seen[d]
              /\ logged[d] = <<str[d]>>
              /\ str[d] = Captured(written[d])

\* main logged a text of two writes while the lock had been free in between
\* and the other pump was still copying
C17_Witness ==
    /\ logged["out"] = <<str["out"]>> /\ Len(written["out"]) = 2
    /\ pump["out"] = "done" /\ pump["err"] = "running"

\* the tasks that take sink locks (the stdin pump takes none)
Tasks == Dirs \cup {"main"}
\* the sink locks task t holds
Held(t) == {s \in Dirs : lock[s] = t}
\* task t is waiting for a sink lock
Waits(t) ==
    IF t = "main" THEN mainPc \in {"test", "log"} ELSE pump[t] = "spawned"
\* the sink whose lock task t asks for
Wanted(t) == IF t = "main" THEN mainDir ELSE t

\* C18: the sink locks never give a circular wait: a task holds at most one
\* sink lock, a task that waits for a lock holds none (main has released
\* the lock of its test when it asks for the lock of its log, and that one
\* when it goes to the next sink), and the holder of a lock that is waited
\* for is not itself waiting.
C18_NoCircularWait ==
    /\ \A s \in Dirs : lock[s] \in {"free"} \cup Tasks
    /\ \A t \in Tasks :
          /\ Cardinality(Held(t)) <= 1
          /\ Waits(t) => Held(t) = {}
          /\ (Waits(t) /\ lock[Wanted(t)] # "free") => ~Waits(lock[Wanted(t)])
    /\ (mainPc = "done") => Held("main") = {}

\* main waits for the lock of the stdout sink for its log, having tested it,
\* while the stderr pump holds the other lock
C18_Witness ==
    /\ mainPc = "log" /\ mainDir = "out" /\ seen["out"] # <<>>
    /\ lock["err"] = "err" /\ lock["out"] = "free"

\* C19: a pump whose copy failed has released its sink lock in the very step
\* of the failure; the text captured before the failure stays in the sink
\* unchanged, it is what main reads from then on, and main is never kept
\* waiting for that lock.
C19_FailedPumpFreesSink ==
    [][\A d \in Dirs :
          /\ (pump'[d] = "failed" /\ pump[d] # "failed") =>
                (lock[d] = d /\ lock'[d] = "free" /\ str'[d] = str[d])
          /\ pump[d] = "failed" =>
                /\ pump'[d] = "failed"
                /\ lock[d] = "free" /\ lock'[d] = "free"
                /\ str'[d] = str[d]
                /\ str[d] = Captured(written[d])
                /\ (mainPc \in {"test", "log"} /\ mainDir = d)
                      => ENABLED (MainTest \/ MainLog)
                /\ (seen'[d] # seen[d] \/ logged'[d] # logged[d])
                      => Observed(d) = str[d]
      ]_vars

\* the stdout pump failed after it had captured text, and main logged that
\* text
C19_Witness ==
    /\ pump["out"] = "failed" /\ str["out"] # <<>>
    /\ stream["out"] # <<>>
    /\ logged["out"] = <<str["out"]>> /\ mainPc = "done"

====
